---- MODULE Spec2Model ----
(***************************************************************************)
(* Control loop, task-space dynamics latch and remote request discipline   *)
(* of the three demonstration drivers:                                     *)
(*   "os"  src/src/sim_os.cpp                (operation-space controller)  *)
(*   "mb"  src/src/simulation/id_modelbased.cpp   (QP, model based)        *)
(*   "mf"  src/tmp/id_modelfree.cpp               (QP, model free)         *)
(*                                                                         *)
(* Units.  Wall-clock time and the deadline are counted in milliseconds,   *)
(* simulated time t in simulation steps dt = 1e-3 s, lengths in            *)
(* centimetres.  End-effector positions are points of a line through the   *)
(* targets, so the Euclidean norm of a difference is an absolute value;    *)
(* the grid holds the points on either side of each goal radius.           *)
(* The physics engine, the rigid-body model, the feedback law and the      *)
(* remote peer are external collaborators: the engine may move the         *)
(* end-effector anywhere and may report stop on any step, the peer may     *)
(* answer any value (NaN included) or not at all, the QP solve may report  *)
(* infeasibility, and the feedback law is a proportional-derivative law    *)
(* with the gains the drivers set.                                         *)
(***************************************************************************)
EXTENDS Integers, Sequences, FiniteSets, TLC

VARIABLES
    driver,       \* which main() is running: "os", "mb" or "mf"
    offset,       \* config offset (dynamics.offset), cm
    row0,         \* first row of trajectory_1.csv before the shift, cm
    pc,           \* position of main(): init, test, dispatch, await, physics, post, sleep, done
    exitReason,   \* why the loop was left: none, horizon, stop, goal
    t,            \* simulated time, in steps of dt
    steps,        \* physics steps performed (simulator.step calls that returned)
    evals,        \* controller evaluations dispatched (action() calls)
    iters,        \* loop bodies entered
    laps,         \* loop bodies completed (reached sleep_until)
    clock,        \* steady_clock, ms
    start,        \* value of next before the loop
    next,         \* the deadline
    sleeps,       \* calls of sleep_until that suspended the thread
    pos,          \* end-effector position held by the simulator
    external,     \* TaskDynamics::_external
    enter,        \* main()'s enter flag (QP drivers)
    activations,  \* "Activating DS" messages printed
    u,            \* TaskDynamics::_u
    requests,     \* requests sent to the remote peer
    extUpdates,   \* task-DS updates run with _external set
    locUpdates,   \* task-DS updates run with _external clear
    inflight,     \* requests sent and not yet answered
    rows,         \* rows appended to demo_os_0.csv
    lastRow,      \* the last row appended
    stopped,      \* the last simulator.step reported stop
    sample,       \* body state read by the running action(): tick, position, velocity
    reqArg,       \* payload of the request being answered (0 when there is none)
    tau           \* torque returned by action(), until the engine has applied it

vars == <<driver, offset, row0, pc, exitReason, t, steps, evals, iters, laps,
          clock, start, next, sleeps, pos, external, enter, activations,
          u, requests, extUpdates, locUpdates, inflight, rows, lastRow, stopped,
          sample, reqArg, tau>>

----------------------------------------------------------------------------
(* Bounds of the model *)

\* horizon T of the loop, in simulation steps (T = 20.0 s or 40.0 s in the drivers)
Horizon == 2
\* longest time one simulator.step may take, ms
MaxWork == 2
\* longest time the peer takes for a reply it does send, ms
MaxDelay == 1
\* cap of the iteration counter (never reached by the loop as written)
MaxIters == Horizon + 3

(* Program constants *)

\* next += 1ms
Period == 1
\* goal radius of the operation-space driver, 0.05 m
GoalRadiusOS == 5
\* goal radius of the QP drivers, 0.01 m
GoalRadiusQP == 1

\* _pos.setStiffness(5.0 * I) in the operation-space driver
StiffnessOS == 5
\* double k = 0.0 in the model-based QP driver (its damping 2*sqrt(k) is 0 too)
StiffnessMB == 0
\* double k = 5.0 in the model-free QP driver
StiffnessMF == 5
\* d = 3.0 * std::sqrt(k) = 6.7 in the model-free QP driver, on the integer grid
DampingMF == 7
\* ParamsConfig::controller::dt of the model-based QP driver, ms
ParamDtMB == 10
\* ParamsConfig::controller::dt of the model-free QP driver, ms
ParamDtMF == 1000
\* _dt = 0.01 in IDController, ms
StepDtMF == 10

Drivers == {"os", "mb", "mf"}
\* end-effector positions: 1 and 6 lie within 5 cm of the offset 1 and 7 does
\* not; 8, 12 and 13 lie within 5 cm of the shifted row 13 and 7 does not;
\* 12 and 13 lie within 1 cm of it and 11 does not
Positions == {1, 6, 7, 8, 11, 12, 13}
Offsets == {1}
Rows == {0, 12}
Vels == {0, 1}
Replies == {1}

Abs(i) == IF i < 0 THEN -i ELSE i
Max(a, b) == IF a >= b THEN a ELSE b

\* (a - b).norm()
Dist(a, b) == Abs(a - b)

\* trajectories[0].row(0) after rowwise() += offset
RefPos == row0 + offset

\* reply of the remote peer: three doubles, possibly not finite
RemoteReplies == [val : Replies, finite : {TRUE}] \cup {[val |-> 0, finite |-> FALSE]}

\* _pos gains set in the TaskDynamics constructor; a gain never set adds nothing
Stiffness(drv) ==
    IF drv = "os" THEN StiffnessOS ELSE IF drv = "mb" THEN StiffnessMB ELSE StiffnessMF
Damping(drv) == IF drv = "mf" THEN DampingMF ELSE 0

\* the position feedback _pos(p) towards the reference (zero reference velocity)
PosPD(drv, x, v) == Stiffness(drv) * (RefPos - x) - Damping(drv) * v

\* _u.setZero(_d) in the TaskDynamics constructor
ZeroOutput == [src |-> "zero", arg |-> << >>, lin |-> 0, finite |-> TRUE, ang |-> 0]

\* _pos(R3(x._trans)) in the operation-space driver (no velocity is handed
\* over); _pos(p) with p._v = x._v.head(3) in the QP drivers.  The angular
\* part is set to zero.
LocalPD_NoVelocity(drv, x, v) ==
    [src |-> "local", arg |-> <<x>>, lin |-> PosPD(drv, x, 0),
     finite |-> TRUE, ang |-> 0]

LocalPD(drv, x, v) ==
    [src |-> "local", arg |-> IF drv = "os" THEN <<x>> ELSE <<x, v>>,
     lin |-> PosPD(drv, x, IF drv = "os" THEN 0 ELSE v),
     finite |-> TRUE, ang |-> 0]

\* _u.head(3) = _requester.request(x._trans, 3): the reply is stored as received
RemoteOutput(r) ==
    [src |-> "remote", arg |-> <<r.val>>, lin |-> r.val, finite |-> r.finite, ang |-> 0]

\* q, dq (and the frame pose computed from them) read at the head of action()
Sample(tk, x, v) == [tick |-> tk, x |-> x, v |-> v]
NoSample == [tick |-> 0, x |-> 0, v |-> 0]

\* outcomes of the QP solve _id(state); the operation-space controller has none
SolveOutcomes(drv) == IF drv = "os" THEN {"none"} ELSE {"ok", "infeasible"}

\* controller::dt handed to the QP and feedback blocks (box constraints), ms
ParamDt(drv) == IF drv = "mb" THEN ParamDtMB ELSE IF drv = "mf" THEN ParamDtMF ELSE 0

\* the controller's own integration step _dt, ms: ParamsConfig::controller::dt()
\* in IKController, the literal 0.01 in IDController
StepDt(drv) == IF drv = "mb" THEN ParamDtMB ELSE IF drv = "mf" THEN StepDtMF ELSE 0

\* the torque action() returns: jac^T * _ctr(curr_pose) with _ref_pose._v = u
\* (operation space); read from the decision vector of _id(state), whose
\* task reference is _task.output(), whatever the solve reported (QP)
Torque(drv, tk, uu, o) ==
    [tick |-> tk, lin |-> uu.lin, finite |-> uu.finite, solve |-> o,
     boxDt |-> ParamDt(drv), intDt |-> StepDt(drv)]
NoTorque ==
    [tick |-> 0, lin |-> 0, finite |-> TRUE, solve |-> "none", boxDt |-> 0, intDt |-> 0]

FlagSeenByUpdate_Before(before, after) == before

\* the value of _external read by the update at the end of
\* OperationSpaceController::action, after the latch test above it
FlagSeenByUpdate(before, after) == after

DSRemote_Always(ext) == TRUE

\* the condition of the ternary in TaskDynamics::update
DSRemote(ext) == ext

LatchOS_Unsticky(ext, d) == d <= GoalRadiusOS

\* if (norm <= 0.05 && !_ds.external()) _ds.setExternal(true);
LatchOS(ext, d) == IF d <= GoalRadiusOS /\ ~ext THEN TRUE ELSE ext

ShouldLog_Always(ext) == TRUE

\* if (_ds.external()) _writer.append(...)
ShouldLog(ext) == ext

LatchQP_NoEnter(d, en) == d <= GoalRadiusQP

\* (xDes - framePosition).norm() <= 0.01 && enter
LatchQP(d, en) == d <= GoalRadiusQP /\ en

LoopCond_NoHorizon(tt, r) == TRUE

\* while (t <= T).  t is a double accumulated by t += dt, so at the step
\* where t equals T in exact arithmetic the comparison goes either way
\* (20000 bodies for T = 20.0, 40001 for T = 40.0); r is that rounding.
LoopCond(tt, r) == tt < Horizon \/ (tt = Horizon /\ r)

AdvanceTime_Stuck(tt) == tt

\* t += dt
AdvanceTime(tt) == tt + 1

AdvanceDeadline_Resync(nx, clk) == clk + Period

\* next += 1ms
AdvanceDeadline(nx, clk) == nx + Period

StepContinues_Always(res) == TRUE

\* if (!simulator.step(...)) break;
StepContinues(res) == res = "ok"

GoalReachedOS_Ref(p, off, ref) == Dist(p, ref) <= GoalRadiusOS

\* (framePosition - offset).norm() <= 0.05
GoalReachedOS(p, off, ref) == Dist(p, off) <= GoalRadiusOS

SleepUntil_For(clk, nx) == clk + Period

\* std::this_thread::sleep_until(next)
SleepUntil(clk, nx) == Max(clk, nx)

----------------------------------------------------------------------------
Init ==
    /\ driver \in Drivers
    /\ offset \in Offsets
    /\ row0 \in Rows
    /\ pc = "init"
    /\ exitReason = "none"
    /\ t = 0 /\ steps = 0 /\ evals = 0 /\ iters = 0 /\ laps = 0
    /\ clock = 0 /\ start = 0 /\ next = 0 /\ sleeps = 0
    /\ pos \in Positions
    /\ external = FALSE
    /\ enter = TRUE
    /\ activations = 0
    /\ u = ZeroOutput
    /\ requests = 0 /\ extUpdates = 0 /\ locUpdates = 0 /\ inflight = 0
    /\ rows = 0 /\ lastRow = 0
    /\ stopped = FALSE
    /\ sample = NoSample
    /\ reqArg = 0
    /\ tau = NoTorque

\* TaskDynamics::update(x) with the flag ext: the request is sent and the
\* caller blocks, or the local law is evaluated
Update(ext, x, v, pcLocal) ==
    /\ extUpdates' = IF ext THEN extUpdates + 1 ELSE extUpdates
    /\ locUpdates' = IF ext THEN locUpdates ELSE locUpdates + 1
    /\ IF DSRemote(ext)
       THEN /\ requests' = requests + 1
            /\ inflight' = inflight + 1
            /\ reqArg' = x
            /\ pc' = "await"
            /\ u' = u
       ELSE /\ requests' = requests
            /\ inflight' = inflight
            /\ reqArg' = reqArg
            /\ pc' = pcLocal
            /\ u' = LocalPD(driver, x, v)

\* main() up to the loop: controller construction (the QP controllers run
\* one task-DS update there), then next = steady_clock::now()
Construct ==
    /\ pc = "init"
    /\ \E v \in Vels :
         /\ clock' = clock
         /\ start' = clock
         /\ next' = clock
         /\ IF driver = "os"
            THEN /\ pc' = "test"
                 /\ UNCHANGED <<u, requests, extUpdates, locUpdates, inflight, reqArg>>
            ELSE Update(external, pos, v, "test")
    /\ UNCHANGED <<driver, offset, row0, exitReason, t, steps, evals, iters, laps,
                   sleeps, pos, external, enter, activations, rows, lastRow,
                   stopped, sample, tau>>

\* while (t <= T)
LoopTest ==
    /\ pc = "test"
    /\ iters < MaxIters
    /\ \E r \in BOOLEAN :
         IF LoopCond(t, r)
         THEN /\ pc' = "dispatch"
              /\ iters' = iters + 1
              /\ exitReason' = exitReason
         ELSE /\ pc' = "done"
              /\ iters' = iters
              /\ exitReason' = "horizon"
    /\ UNCHANGED <<driver, offset, row0, t, steps, evals, laps, clock, start, next,
                   sleeps, pos, external, enter, activations, u, requests,
                   extUpdates, locUpdates, inflight, rows, lastRow, stopped,
                   sample, reqArg, tau>>

\* OperationSpaceController::action up to the task-DS update, called by
\* simulator.step
OSAction ==
    /\ pc = "dispatch"
    /\ driver = "os"
    /\ evals' = evals + 1
    /\ rows' = IF ShouldLog(external) THEN rows + 1 ELSE rows
    /\ lastRow' = IF ShouldLog(external) THEN pos ELSE lastRow
    /\ external' = LatchOS(external, Dist(pos, RefPos))
    /\ \E v \in Vels :
         /\ sample' = Sample(iters, pos, v)
         /\ Update(FlagSeenByUpdate(external, external'), pos, v, "physics")
    /\ \E o \in SolveOutcomes(driver) :
         tau' = IF pc' = "await" THEN NoTorque ELSE Torque(driver, iters, u', o)
    /\ UNCHANGED <<driver, offset, row0, exitReason, t, steps, iters, laps, clock,
                   start, next, sleeps, pos, enter, activations, stopped>>

\* IKController::action / IDController::action up to the task-DS update
QPAction ==
    /\ pc = "dispatch"
    /\ driver # "os"
    /\ evals' = evals + 1
    /\ \E v \in Vels :
         /\ sample' = Sample(iters, pos, v)
         /\ Update(external, pos, v, "physics")
    /\ \E o \in SolveOutcomes(driver) :
         tau' = IF pc' = "await" THEN NoTorque ELSE Torque(driver, iters, u', o)
    /\ UNCHANGED <<driver, offset, row0, exitReason, t, steps, iters, laps, clock,
                   start, next, sleeps, pos, external, enter, activations, rows,
                   lastRow, stopped>>

\* the reply of the peer arrives and request() returns
Reply ==
    /\ pc = "await"
    /\ \E r \in RemoteReplies, d \in 0..MaxDelay :
         /\ u' = RemoteOutput(r)
         /\ clock' = clock + d
    /\ inflight' = inflight - 1
    /\ reqArg' = 0
    /\ pc' = IF iters = 0 THEN "test" ELSE "physics"
    /\ \E o \in SolveOutcomes(driver) :
         tau' = IF iters = 0 THEN NoTorque ELSE Torque(driver, iters, u', o)
    /\ UNCHANGED <<driver, offset, row0, exitReason, t, steps, evals, iters, laps,
                   start, next, sleeps, pos, external, enter, activations,
                   requests, extUpdates, locUpdates, rows, lastRow, stopped,
                   sample>>

\* the rest of simulator.step: the torque is applied, the engine advances,
\* the viewer reports whether to go on
Physics ==
    /\ pc = "physics"
    /\ \E p \in Positions, res \in {"ok", "stop"}, w \in 0..MaxWork :
         /\ pos' = p
         /\ clock' = clock + w
         /\ stopped' = (res = "stop")
         /\ IF StepContinues(res)
            THEN pc' = "post" /\ exitReason' = exitReason
            ELSE pc' = "done" /\ exitReason' = "stop"
    /\ steps' = steps + 1
    /\ sample' = NoSample
    /\ tau' = NoTorque
    /\ UNCHANGED <<driver, offset, row0, t, evals, iters, laps, start, next, sleeps,
                   external, enter, activations, u, requests, extUpdates,
                   locUpdates, inflight, rows, lastRow, reqArg>>

\* operation-space loop body after the step
PostOS ==
    /\ pc = "post"
    /\ driver = "os"
    /\ t' = AdvanceTime(t)
    /\ IF GoalReachedOS(pos, offset, RefPos)
       THEN /\ pc' = "done"
            /\ exitReason' = "goal"
            /\ UNCHANGED <<next, laps>>
       ELSE /\ pc' = "sleep"
            /\ exitReason' = exitReason
            /\ next' = AdvanceDeadline(next, clock)
            /\ laps' = laps + 1
    /\ UNCHANGED <<driver, offset, row0, steps, evals, iters, clock, start, sleeps,
                   pos, external, enter, activations, u, requests, extUpdates,
                   locUpdates, inflight, rows, lastRow, stopped,
                   sample, reqArg, tau>>

\* QP loop body after the step
PostQP ==
    /\ pc = "post"
    /\ driver # "os"
    /\ t' = AdvanceTime(t)
    /\ IF LatchQP(Dist(RefPos, pos), enter)
       THEN /\ activations' = activations + 1
            /\ external' = TRUE
            /\ enter' = FALSE
       ELSE UNCHANGED <<activations, external, enter>>
    /\ next' = AdvanceDeadline(next, clock)
    /\ laps' = laps + 1
    /\ pc' = "sleep"
    /\ UNCHANGED <<driver, offset, row0, exitReason, steps, evals, iters, clock,
                   start, sleeps, pos, u, requests, extUpdates, locUpdates,
                   inflight, rows, lastRow, stopped,
                   sample, reqArg, tau>>

\* std::this_thread::sleep_until(next)
Sleep ==
    /\ pc = "sleep"
    /\ clock' = SleepUntil(clock, next)
    /\ sleeps' = IF clock' > clock THEN sleeps + 1 ELSE sleeps
    /\ pc' = "test"
    /\ UNCHANGED <<driver, offset, row0, exitReason, t, steps, evals, iters, laps,
                   start, next, pos, external, enter, activations, u, requests,
                   extUpdates, locUpdates, inflight, rows, lastRow, stopped,
                   sample, reqArg, tau>>

\* the steps of the control thread
Program ==
    \/ Construct
    \/ LoopTest
    \/ OSAction
    \/ QPAction
    \/ Physics
    \/ PostOS
    \/ PostQP
    \/ Sleep

Next == Program \/ Reply

Spec == Init /\ [][Next]_vars

\* the control thread always takes its next step; the peer owes nothing
FairSpec == Spec /\ WF_vars(Program)

\* as FairSpec, with a peer that answers every request
LiveSpec == Spec /\ WF_vars(Program) /\ WF_vars(Reply)

----------------------------------------------------------------------------
(* Settled properties *)

\* C1: the external flag starts false and, once true, is never set back to
\* false by any later step, whatever the distance of the end-effector from
\* the target; every task-DS update made with the flag set takes its linear
\* part from the remote peer.
C1_LatchMonotone ==
    /\ external = FALSE
    /\ [][external => external']_vars
    /\ [](pc = "physics" /\ external => u.src = "remote")

\* a second external-mode tick of the operation-space driver, sampled farther
\* than 5 cm from the target, whose update was answered by the peer
C1_Witness ==
    /\ driver = "os"
    /\ pc = "physics"
    /\ external
    /\ extUpdates >= 2
    /\ Dist(pos, RefPos) > GoalRadiusOS
    /\ u.src = "remote"

\* C2: the deadline is set once before the loop; every completed iteration
\* adds exactly one period to it and nothing else changes it, so it never
\* decreases and is never re-read from the clock.
C2_DeadlineAdvances ==
    [][/\ laps' = laps + 1 => next' = next + Period
       /\ (laps' = laps /\ pc # "init") => next' = next
       /\ pc = "init" => next' = clock']_vars

\* two iterations completed, the second one late (the clock is past the
\* deadline just advanced)
C2_Witness ==
    /\ pc = "sleep"
    /\ laps >= 2
    /\ clock > next

\* C3: with every physics step and every remote request returning, the loop
\* is left; it performs at most Horizon + 1 physics steps, and it is left
\* because t passed the horizon, the engine reported stop or (operation
\* space) the goal was reached.
C3_LoopTerminates ==
    /\ <>(pc = "done")
    /\ [](steps <= Horizon + 1)
    /\ [](pc = "done" =>
            \/ exitReason = "horizon" /\ t >= Horizon
            \/ exitReason = "stop"
            \/ exitReason = "goal" /\ driver = "os")

\* the loop ran to the horizon with the largest number of physics steps
C3_Witness ==
    /\ pc = "done"
    /\ exitReason = "horizon"
    /\ steps = Horizon + 1

\* the operation-space driver has just made its goal test
AfterGoalTest == driver = "os" /\ (exitReason = "goal" \/ pc = "sleep")

\* C4 as stated: the loop is left on "goal reached" exactly when the
\* end-effector is within 5 cm of the position of the task reference x*
\* (first trajectory row shifted by the offset).
C4_GoalIsReference ==
    AfterGoalTest => (exitReason = "goal" <=> Dist(pos, RefPos) <= GoalRadiusOS)

\* C4 amended: the loop is left on "goal reached" exactly when the
\* end-effector, after the physics step, is within 5 cm of the configured
\* offset itself.
C4_GoalIsOffset ==
    AfterGoalTest => (exitReason = "goal" <=> Dist(pos, offset) <= GoalRadiusOS)

\* the loop ended on the goal test, farther than 5 cm from the task reference
C4_Witness ==
    /\ driver = "os"
    /\ exitReason = "goal"
    /\ Dist(pos, RefPos) > GoalRadiusOS
    /\ steps >= 2

\* C5: the return of simulator.step with stop is the last thing the loop
\* does: main() is past the loop at once, and neither that return nor
\* anything after it advances simulated time or the deadline, changes the
\* latch, sleeps or dispatches another controller evaluation or physics
\* step.  (The controller evaluation made inside that same simulator.step,
\* before the report, is OSAction or QPAction and is not constrained here.)
C5_StopExits ==
    /\ [](stopped => pc = "done" /\ exitReason = "stop")
    /\ [][stopped' =>
            /\ t' = t /\ next' = next /\ laps' = laps
            /\ external' = external /\ sleeps' = sleeps
            /\ evals' = evals /\ iters' = iters
            /\ steps' <= steps + 1]_vars
    /\ [][stopped => UNCHANGED vars]_vars

\* stop reported on a later tick, after the latch was set
C5_Witness ==
    /\ stopped
    /\ pc = "done"
    /\ steps >= 2
    /\ external

\* C6: the deadline is the start plus one period per completed iteration,
\* every loop body entered performs its controller evaluation and physics
\* step, and sleep_until returns at once while the clock is not before the
\* deadline (and otherwise returns at the deadline).
C6_NoTickSkipped ==
    /\ [](next = start + Period * laps)
    /\ [](pc = "test" => steps = iters /\ evals = iters /\ laps = iters)
    /\ [](steps <= iters /\ iters <= steps + 1)
    /\ [][pc = "sleep" /\ clock >= next => clock' = clock /\ sleeps' = sleeps]_vars
    /\ [][pc = "sleep" /\ clock < next => clock' = next /\ sleeps' = sleeps + 1]_vars

\* back at the loop head after two iterations, still behind the deadline,
\* at least one sleep_until having returned at once
C6_Witness ==
    /\ pc = "test"
    /\ laps >= 2
    /\ clock > next
    /\ sleeps < laps
    /\ steps = laps

\* C7: requests are sent only by task-DS updates run with the flag set, one
\* per such update; none is sent while the flag is clear (the update in the
\* QP controller's constructor included); at most one is unanswered, and the
\* control thread is then blocked in request().
C7_RequestDiscipline ==
    /\ inflight \in {0, 1}
    /\ inflight = 1 <=> pc = "await"
    /\ requests = extUpdates
    /\ ~external => requests = 0
    /\ iters = 0 => requests = 0
    /\ (driver # "os" /\ pc # "init") => locUpdates >= 1

\* the second request is unanswered, after at least one local update
C7_Witness ==
    /\ requests = 2
    /\ inflight = 1
    /\ locUpdates >= 1
    /\ pc = "await"

\* C8 as stated: every request sent is completed (so the loop goes on to
\* its next tick), whatever the peer does.
C8_RequestCompletes == (inflight = 1) ~> (inflight = 0)

\* C9 as stated: the linear part of the task-DS output is finite on every
\* tick, a non-finite or missing reply being replaced by a fallback.
C9_OutputFinite == u.finite

\* C10 as stated: the log holds one row per task-DS update run in external
\* mode (operation-space driver).
C10_RowPerExternalUpdate == driver = "os" => rows = extUpdates

\* C10 amended: the operation-space controller appends one row, the current
\* end-effector position, on every tick entered with the flag already set
\* and none on a tick entered with the flag clear, the latching tick
\* included; the row count never decreases and is the number of
\* external-mode updates less one once the latch is set, zero before.
C10_RowPerLatchedEntry ==
    /\ [](rows = IF driver = "os" /\ external THEN extUpdates - 1 ELSE 0)
    /\ [](pc = "await" /\ rows >= 1 => lastRow = pos)
    /\ [][rows' = rows \/ (rows' = rows + 1 /\ external /\ evals' = evals + 1)]_vars

\* the second external-mode update is under way and one row is in the log
C10_Witness ==
    /\ driver = "os"
    /\ pc = "await"
    /\ extUpdates = 2
    /\ rows = 1

\* C12: within a tick the body state is read first, the task DS is updated
\* from that reading, the torque is computed from the updated output, and
\* only then does the engine advance, with that torque; in the
\* operation-space controller the latch test precedes the update, so the
\* update of the latching tick already asks the remote peer.
C12_TickOrder ==
    /\ [](pc \in {"await", "physics"} /\ iters > 0 =>
            /\ sample.tick = iters
            /\ sample.x = pos
            /\ evals = iters
            /\ steps = iters - 1)
    /\ [](pc = "await" /\ iters > 0 => reqArg = sample.x)
    /\ [](pc = "physics" =>
            /\ locUpdates + extUpdates = iters + (IF driver = "os" THEN 0 ELSE 1)
            /\ u.src = "local" => u.lin = PosPD(driver, sample.x, sample.v)
            /\ tau.tick = iters
            /\ tau.lin = u.lin
            /\ tau.finite = u.finite)
    /\ [][steps' # steps => steps' = steps + 1 /\ pc = "physics" /\ tau.tick = iters]_vars
    /\ [][driver = "os" /\ ~external /\ external' =>
            pc' = "await" /\ requests' = requests + 1 /\ reqArg' = pos]_vars

\* the operation-space controller latched on a tick after its first one, and
\* the torque of that tick comes from the peer's reply
C12_Witness ==
    /\ driver = "os"
    /\ pc = "physics"
    /\ locUpdates >= 1
    /\ extUpdates = 1
    /\ u.src = "remote"
    /\ tau.tick = iters

\* C13 as stated: the torque a QP controller hands to the engine is never
\* read from the decision vector of a failed solve (the last feasible
\* torque is returned instead).
C13_NoFailedSolveTorque == pc = "physics" => tau.solve # "infeasible"

\* C14: the flag is set only by a step that observes the end-effector within
\* the goal radius of the target (5 cm, in the operation-space controller;
\* 1 cm, in the QP loops after the physics step), every such observation
\* leaves the flag set, and the QP loops latch and print at most once.
C14_LatchOnObservation ==
    /\ [][~external /\ external' =>
            \/ /\ driver = "os"
               /\ pc = "dispatch"
               /\ Dist(pos, RefPos) <= GoalRadiusOS
            \/ /\ driver # "os"
               /\ pc = "post"
               /\ Dist(RefPos, pos) <= GoalRadiusQP
               /\ activations' = activations + 1]_vars
    /\ [][driver = "os" /\ pc = "dispatch" /\ Dist(pos, RefPos) <= GoalRadiusOS
            => external']_vars
    /\ [][driver # "os" /\ pc = "post" /\ Dist(RefPos, pos) <= GoalRadiusQP
            => external']_vars
    /\ [](activations <= 1)
    /\ [](driver # "os" => (external <=> activations = 1) /\ (enter <=> ~external))
    /\ [](driver = "os" => activations = 0)

\* a QP loop, latched on an earlier tick, observes the end-effector within
\* 1 cm of the target again
C14_Witness ==
    /\ driver # "os"
    /\ pc = "sleep"
    /\ extUpdates >= 1
    /\ Dist(RefPos, pos) <= GoalRadiusQP
    /\ activations = 1

\* C15: after every task-DS update the angular part of the output is zero;
\* with the flag set the request carries the current end-effector position
\* and the linear part is the reply, with the flag clear the linear part is
\* the position feedback at the current position and linear velocity.
C15_TaskOutput ==
    /\ [](u.ang = 0)
    /\ [](pc = "await" => external /\ reqArg = pos)
    /\ [](pc = "physics" =>
            IF external
            THEN u.src = "remote" /\ u.lin = u.arg[1]
            ELSE u.src = "local" /\ u.lin = PosPD(driver, pos, sample.v))
    /\ [](driver # "os" /\ pc = "test" /\ iters = 0 => u.src = "local")

\* a local update of the model-free QP driver, whose feedback has damping,
\* made at a non-zero velocity
C15_Witness ==
    /\ driver = "mf"
    /\ pc = "physics"
    /\ ~external
    /\ sample.v = 1
    /\ u.lin = PosPD("mf", pos, 1)
    /\ u.lin # PosPD("mf", pos, 0)

\* C16 as stated: in the QP drivers the period handed to the QP and feedback
\* blocks is the step with which the controller integrates the solution.
C16_SinglePeriod ==
    (driver # "os" /\ pc = "physics") => tau.boxDt = tau.intDt

====
